---- MODULE Spec2Model ----
(***************************************************************************)
(* State-machine model of the urbanii scene-intelligence analyzers         *)
(* (inference/intelligence/*.py), of the ingestion loop that drives them   *)
(* (inference/rtsp_inference.py) and of the backend scene state            *)
(* (backend/src/main.py).                                                  *)
(*                                                                         *)
(* Conventions                                                             *)
(*  - Times are whole seconds, pixel coordinates are whole pixels; the     *)
(*    bounding boxes offered as inputs have even x1+x2 and y1+y2, so the   *)
(*    centroid (x1+x2)/2.0 is the integer quotient.                        *)
(*  - math.hypot is kept as its square (_dist2); every comparison of a     *)
(*    distance in the code is made on the squares, which is the same       *)
(*    comparison for non-negative numbers.                                 *)
(*  - An optional Python value (None or v) is the set {} or {v}.           *)
(*  - A dict is a record; a key the dict lacks is a field the record       *)
(*    lacks.                                                               *)
(***************************************************************************)
EXTENDS Integers, Sequences, FiniteSets, TLC

VARIABLES
    loiter_seconds,   \* LoiterAnalyzer.loiter_seconds (constructor argument)
    _tracks,          \* LoiterAnalyzer._tracks : id -> Track
    _next_id,         \* LoiterAnalyzer._next_id
    loiter_call,      \* the last LoiterAnalyzer.analyze call: inputs and locals
    loiter_out,       \* the dict that call returned
    loiter_calls,     \* number of analyze calls made so far
    loiter_hist       \* history: ids issued to new tracks, ids ever listed as loiterers

VARIABLES
    crowd,            \* CrowdAnalyzer: history (deque), its maxlen, calls made, last call
    highway,          \* HighwayAnalyzer: history (deque), its maxlen, calls made, last call
    industrial        \* IndustrialAnalyzer: worker_hist (deque), its maxlen, calls made, last call

loiter_vars ==
    <<loiter_seconds, _tracks, _next_id, loiter_call, loiter_out, loiter_calls, loiter_hist>>

VARIABLES
    clock,            \* the wall clock time.time()
    loop,             \* rtsp_inference.main: its locals and its position in the loop
    backend           \* backend/src/main.py: ACTIVE_SCENE, events, last_video_frame,
                      \* and the switch_scene calls under way in worker threads

trend_vars == <<crowd, highway, industrial>>

system_vars == <<clock, loop, backend>>

vars == <<loiter_vars, trend_vars, system_vars>>

(***************************************************************************)
(* Bounds of the model                                                     *)
(***************************************************************************)
MaxNow == 2            \* explicit `now` arguments are 0..MaxNow and LateNow
MaxDets == 2           \* detections per frame
MaxCalls == 3          \* analyze calls made on one analyzer
WallEpoch == 1700000000  \* first reading of time.time()
MaxTrendCalls == 7     \* analyze calls made on one trend analyzer
SmallHistory == 6      \* a history_size below the default, so that the deque fills
FrameWidth == 300      \* frame.shape[1] of the frames offered
FrameHeight == 300     \* frame.shape[0] of the frames offered
MaxLoopIters == 3      \* iterations of the ingestion loop that get to read a frame
MaxElapsed == 9        \* seconds the ingestion loop runs for
MaxSwitching == 1      \* switch_scene calls under way at the same time
MaxRequests == 5       \* POST /frame requests the backend handles on its own
MaxOverflow == 3       \* POST /frame requests that arrive at a full event log
MaxRepeat == 2         \* analyze calls made on one analyzer fed arbitrary records

(***************************************************************************)
(* Program constants                                                       *)
(***************************************************************************)
match_radius_px == 60
max_track_age_seconds == 3
loiter_seconds_default == 25
best_dist_init2 == 2000000000  \* best_dist = 1e9: above every distance of the model
history_size_default == 30
trend_min_samples == 6
POLL_INTERVAL == 2
HLS_MAX_AGE == 1500
near_miss_px_threshold == 70

\* Readings of the wall clock time.time()
WallTimes == {WallEpoch, WallEpoch + 2}

\* `now` arguments: None or a number
\* LateNow is max_track_age_seconds after MaxNow and more than that after the rest
LateNow == MaxNow + max_track_age_seconds

NowArgs == {{}} \cup {{t} : t \in (0..MaxNow) \cup {LateNow}}

\* LoiterAnalyzer(loiter_seconds=...) as constructed for the analyzer on its own
LoiterSecondsArg == 1

(***************************************************************************)
(* Detections                                                              *)
(***************************************************************************)
Box(cx, cy) == <<cx - 10, cy - 20, cx + 10, cy + 20>>

Det(cls, cx, cy) == [class_name |-> cls, confidence |-> 50, bbox |-> Box(cx, cy)]

\* (100,100)-(118,124) are 30 px apart, (118,124)-(154,172) are 60 px apart,
\* (100,100)-(154,172) are 90 px apart
PersonPoints == {<<100, 100>>, <<118, 124>>, <<154, 172>>}

Dets == {Det("person", p[1], p[2]) : p \in PersonPoints} \cup {Det("car", 100, 100)}

RECURSIVE SeqsUpTo(_, _)
SeqsUpTo(S, n) ==
    IF n = 0 THEN {<<>>}
    ELSE LET shorter == SeqsUpTo(S, n - 1)
         IN shorter \cup {Append(s, e) : s \in {t \in shorter : Len(t) = n - 1}, e \in S}

DetLists == SeqsUpTo(Dets, MaxDets)

(***************************************************************************)
(* Helpers                                                                 *)
(***************************************************************************)
Max(a, b) == IF a >= b THEN a ELSE b

MinOf(S) == CHOOSE m \in S : \A o \in S : m <= o

\* d.get(key) == value
GetIs(d, key, value) == key \in DOMAIN d /\ d[key] = value

\* d.get(key) is not None
GetPresent(d, key) == key \in DOMAIN d

\* `x or default` on an optional number: None and 0 are falsy
OrElse(opt, default) ==
    IF opt = {} \/ opt = {0} THEN default ELSE CHOOSE v \in opt : TRUE

(***************************************************************************)
(* LoiterAnalyzer                                                          *)
(***************************************************************************)
Track(x, y, first_seen, last_seen, dwell_seconds) ==
    [x |-> x, y |-> y, first_seen |-> first_seen, last_seen |-> last_seen,
     dwell_seconds |-> dwell_seconds]

_centroid(bbox) == <<(bbox[1] + bbox[3]) \div 2, (bbox[2] + bbox[4]) \div 2>>

\* math.hypot(a[0]-b[0], a[1]-b[1]) squared
_dist2(a, b) == (a[1] - b[1]) * (a[1] - b[1]) + (a[2] - b[2]) * (a[2] - b[2])

\* persons = [d for d in detections if class_name == "person" and bbox is not None]
IsLoiterPerson(d) == GetIs(d, "class_name", "person") /\ GetPresent(d, "bbox")

LoiterPersons(detections) == SelectSeq(detections, IsLoiterPerson)

\* age out tracks: stale ids are deleted
IsStale(tr, now) == (now - tr.last_seen) > max_track_age_seconds

AgeOut(trk, now) ==
    [tid \in {t \in DOMAIN trk : ~IsStale(trk[t], now)} |-> trk[tid]]

\* the inner loop over self._tracks.items(): insertion order is id order
RECURSIVE NearestScan(_, _, _, _, _)
NearestScan(trk, todo, c, best_tid, best_dist) ==
    IF todo = {} THEN [tid |-> best_tid, dist |-> best_dist]
    ELSE LET tid == MinOf(todo)
             d == _dist2(<<trk[tid].x, trk[tid].y>>, c)
         IN IF d < best_dist
            THEN NearestScan(trk, todo \ {tid}, c, {tid}, d)
            ELSE NearestScan(trk, todo \ {tid}, c, best_tid, best_dist)

\* Mutant of Candidates: the scan forgets used_tracks
CandidatesIgnoringUsed(trk, used_tracks) == DOMAIN trk

\* tracks the scan looks at: those not in used_tracks
Candidates(trk, used_tracks) == DOMAIN trk \ used_tracks

\* the id given to a new track, and the counter after it
NewId(next_id) == next_id

\* Mutant of BumpId: the counter is not advanced
BumpIdStuck(next_id) == next_id

BumpId(next_id) == next_id + 1

\* greedy nearest matching: the loop over centroids
RECURSIVE GreedyMatch(_, _, _, _, _, _)
GreedyMatch(trk, next_id, used_tracks, assignments, centroids, now) ==
    IF centroids = <<>>
    THEN [tracks |-> trk, next_id |-> next_id, assignments |-> assignments]
    ELSE LET c == Head(centroids)
             best == NearestScan(trk, Candidates(trk, used_tracks), c, {}, best_dist_init2)
         IN IF best.tid # {} /\ best.dist <= match_radius_px * match_radius_px
            THEN LET best_tid == CHOOSE t \in best.tid : TRUE
                 IN GreedyMatch(trk, next_id, used_tracks \cup {best_tid},
                                Append(assignments, [tid |-> best_tid, c |-> c]),
                                Tail(centroids), now)
            ELSE LET tid == NewId(next_id)
                     created == [t \in DOMAIN trk \cup {tid} |->
                                    IF t = tid THEN Track(c[1], c[2], now, now, 0)
                                    ELSE trk[t]]
                 IN GreedyMatch(created, BumpId(next_id), used_tracks \cup {tid},
                                Append(assignments, [tid |-> tid, c |-> c]),
                                Tail(centroids), now)

\* Mutant of NewDwell: the decay is not floored at zero
NewDwellNoFloor(tr, c, now) ==
    LET dt == Max(0, now - tr.last_seen)
        moved == _dist2(<<tr.x, tr.y>>, c)
    IN IF 4 * moved <= match_radius_px * match_radius_px
       THEN tr.dwell_seconds + dt
       ELSE tr.dwell_seconds - dt

\* the dwell of a track after it was assigned centroid c at time now
NewDwell(tr, c, now) ==
    LET dt == Max(0, now - tr.last_seen)
        moved == _dist2(<<tr.x, tr.y>>, c)
    IN IF 4 * moved <= match_radius_px * match_radius_px
       THEN tr.dwell_seconds + dt
       ELSE Max(0, tr.dwell_seconds - dt)

\* update tracks + dwell: the loop over assignments
RECURSIVE UpdateTracks(_, _, _)
UpdateTracks(trk, assignments, now) ==
    IF assignments = <<>> THEN trk
    ELSE LET a == Head(assignments)
             tr == trk[a.tid]
             updated == [tr EXCEPT !.dwell_seconds = NewDwell(tr, a.c, now),
                                   !.x = a.c[1], !.y = a.c[2], !.last_seen = now]
         IN UpdateTracks([trk EXCEPT ![a.tid] = updated], Tail(assignments), now)

\* round(dwell, 1): a whole number of seconds is its own rounding
Round1(dwell) == dwell

\* Mutant of Qualifies: a dwell equal to the threshold does not qualify
QualifiesStrict(tr, threshold) == tr.dwell_seconds > threshold

\* does the track qualify as a loiterer
Qualifies(tr, threshold) == tr.dwell_seconds >= threshold

\* compute loiterers: in the order of self._tracks.items()
RECURSIVE Loiterers(_, _, _)
Loiterers(trk, todo, threshold) ==
    IF todo = {} THEN <<>>
    ELSE LET tid == MinOf(todo)
             rest == Loiterers(trk, todo \ {tid}, threshold)
         IN IF Qualifies(trk[tid], threshold)
            THEN <<[track_id |-> tid, dwell_seconds |-> Round1(trk[tid].dwell_seconds)]>> \o rest
            ELSE rest

\* Mutant of ProcessingOrder: the detections are matched last to first
ProcessingOrderReversed(centroids) ==
    [i \in 1..Len(centroids) |-> centroids[Len(centroids) + 1 - i]]

\* for c in centroids: the detections are matched in the order of the input list
ProcessingOrder(centroids) == centroids

\* LoiterAnalyzer.analyze: the state after the call, its locals and its result
LoiterAnalyze(trk, next_id, threshold, detections, now_arg, wall) ==
    LET now == OrElse(now_arg, wall)
        persons == LoiterPersons(detections)
        centroids == [i \in 1..Len(persons) |-> _centroid(persons[i].bbox)]
        aged == AgeOut(trk, now)
        m == GreedyMatch(aged, next_id, {}, <<>>, ProcessingOrder(centroids), now)
        updated == UpdateTracks(m.tracks, m.assignments, now)
        loiterers == Loiterers(updated, DOMAIN updated, threshold)
    IN [tracks |-> updated,
        next_id |-> m.next_id,
        call |-> [detections |-> detections, now_arg |-> now_arg, now |-> now,
                  live |-> [tid \in DOMAIN aged |-> <<aged[tid].x, aged[tid].y>>],
                  assignments |-> m.assignments],
        out |-> [enabled |-> TRUE,
                 threshold_seconds |-> threshold,
                 active_tracks |-> Cardinality(DOMAIN updated),
                 loiterers |-> loiterers,
                 loiter_count |-> Len(loiterers)]]

NoCall == [detections |-> <<>>, now_arg |-> {}, now |-> 0, live |-> << >>,
           assignments |-> <<>>]

NoOut == [enabled |-> FALSE, threshold_seconds |-> 0, active_tracks |-> 0,
          loiterers |-> <<>>, loiter_count |-> 0]

\* LoiterAnalyzer.__init__
LoiterInit ==
    /\ loiter_seconds = LoiterSecondsArg
    /\ _tracks = << >>
    /\ _next_id = 1
    /\ loiter_call = NoCall
    /\ loiter_out = NoOut
    /\ loiter_calls = 0
    /\ loiter_hist = [issued |-> {}, listed |-> {}]

\* the assignments of a call that created their track: the track was not among
\* those of `before` that the call kept
NewAssignments(call, before) ==
    {i \in 1..Len(call.assignments) :
        call.assignments[i].tid \notin DOMAIN AgeOut(before, call.now)}

\* one call loiter_analyzer.analyze(detections, now)
LoiterCall(detections, now_arg, wall) ==
    /\ loiter_calls < MaxCalls
    /\ \E r \in {LoiterAnalyze(_tracks, _next_id, loiter_seconds, detections, now_arg, wall)} :
       /\ loiter_calls' = loiter_calls + 1
       /\ _tracks' = r.tracks
       /\ _next_id' = r.next_id
       /\ loiter_call' = r.call
       /\ loiter_out' = r.out
       /\ loiter_hist' =
            [issued |-> loiter_hist.issued \cup
                          {r.call.assignments[i].tid : i \in NewAssignments(r.call, _tracks)},
             listed |-> loiter_hist.listed \cup
                          {r.out.loiterers[i].track_id : i \in 1..Len(r.out.loiterers)}]
       /\ UNCHANGED <<loiter_seconds, trend_vars, system_vars>>

\* time.time() is read only when `now` is falsy
WallReads(now_arg) == IF now_arg = {} \/ now_arg = {0} THEN WallTimes ELSE {WallEpoch}

Analyze ==
    \E detections \in DetLists, now_arg \in NowArgs :
        \E wall \in WallReads(now_arg) :
            LoiterCall(detections, now_arg, wall)


(***************************************************************************)
(* Frames for the counting analyzers: np persons, nv vehicles, nf          *)
(* forklifts; the persons stand in the lower part of the frame when low    *)
(***************************************************************************)
VehicleClassAt(i) == IF i % 2 = 1 THEN "car" ELSE "truck"

Frame(np, nv, nf, low) ==
    [i \in 1..np |-> Det("person", 40 * i - 20, IF low THEN 200 ELSE 100)]
    \o [i \in 1..nv |-> Det(VehicleClassAt(i), 30 * i, 60)]
    \o [i \in 1..nf |-> Det("forklift", 150, 150)]

PersonCounts == {0, 2, 3, 8}

VehicleCounts == {0, 2, 8}

CrowdFrames == {Frame(np, nv, 0, FALSE) : np \in PersonCounts, nv \in {0, 1}}

HighwayFrames == {Frame(np, nv, 0, low) : np \in {0, 1}, nv \in VehicleCounts, low \in BOOLEAN}

IndustrialFrames ==
    {Frame(np, nv, nf, low) : np \in VehicleCounts, nv \in {0, 1}, nf \in {0, 1}, low \in BOOLEAN}

HistorySizes == {history_size_default, SmallHistory}

(***************************************************************************)
(* Rolling history and trend                                               *)
(***************************************************************************)
\* Mutant of DequeAppend: the history is never trimmed
DequeAppendUnbounded(history, v, maxlen) == Append(history, v)

\* deque(maxlen=n).append(v)
DequeAppend(history, v, maxlen) ==
    IF maxlen = 0 THEN history
    ELSE IF Len(history) >= maxlen THEN Append(Tail(history), v)
    ELSE Append(history, v)

RECURSIVE Sum(_)
Sum(seq) == IF seq = <<>> THEN 0 ELSE Head(seq) + Sum(Tail(seq))

\* list(history)[-3:]
Last3(history) ==
    SubSeq(history, Max(1, Len(history) - 2), Len(history))

\* list(history)[-6:-3]
Earlier3(history) ==
    SubSeq(history, Max(1, Len(history) - 5), Len(history) - 3)

\* (recent_sum / 3) > (earlier_sum / 3) * 1.2 in IEEE doubles: the exact comparison,
\* and the pairs <<earlier_sum, recent_sum>> of equal sides where the product rounds down
FloatGt12(recent_sum, earlier_sum) ==
    \/ 10 * recent_sum > 12 * earlier_sum
    \/ <<earlier_sum, recent_sum>> \in {<<35, 42>>, <<55, 66>>, <<70, 84>>}

\* (recent_sum / 3) < (earlier_sum / 3) * 0.8 in IEEE doubles: the exact comparison,
\* and the pairs <<earlier_sum, recent_sum>> of equal sides where the product rounds up
FloatLt08(recent_sum, earlier_sum) ==
    \/ 10 * recent_sum < 8 * earlier_sum
    \/ <<earlier_sum, recent_sum>> \in
          {<<5, 4>>, <<10, 8>>, <<20, 16>>, <<25, 20>>, <<40, 32>>, <<50, 40>>,
           <<65, 52>>, <<80, 64>>}

\* Mutant of EnoughSamples: the trend is classified from 4 samples on
EnoughSamplesFour(history) == Len(history) >= 4

\* len(history) >= 6
EnoughSamples(history) == Len(history) >= trend_min_samples

\* the trend of CrowdAnalyzer once count was recorded
CrowdTrend(history) ==
    IF EnoughSamples(history)
    THEN LET recent == Sum(Last3(history))
             earlier == Sum(Earlier3(history))
         IN IF FloatGt12(recent, earlier) THEN "increasing"
            ELSE IF FloatLt08(recent, earlier) THEN "decreasing"
            ELSE "stable"
    ELSE "stable"

\* the trend of HighwayAnalyzer and IndustrialAnalyzer
GatedTrend(history) ==
    IF EnoughSamples(history)
    THEN LET recent == Sum(Last3(history))
             earlier == Sum(Earlier3(history))
         IN IF earlier > 0 /\ FloatGt12(recent, earlier) THEN "increasing"
            ELSE IF earlier > 0 /\ FloatLt08(recent, earlier) THEN "decreasing"
            ELSE "stable"
    ELSE "stable"

(***************************************************************************)
(* CrowdAnalyzer                                                           *)
(***************************************************************************)
\* persons = [d for d in detections if d["class_name"] == "person"]
CrowdPersons(detections) == SelectSeq(detections, LAMBDA d : d.class_name = "person")

\* d["class_name"] on every detection and p["bbox"] on every person: a detection
\* that lacks the key raises KeyError
CrowdRaises(detections) ==
    \/ \E i \in 1..Len(detections) : "class_name" \notin DOMAIN detections[i]
    \/ \E i \in 1..Len(detections) :
          detections[i].class_name = "person" /\ "bbox" \notin DOMAIN detections[i]

\* what a call that raised leaves as its result
KeyError == [raised |-> "KeyError"]

\* Mutant of ZoneOf: a centroid between the two lines is in no zone
ZoneOfGap(bbox, frame_width) ==
    LET cx2 == bbox[1] + bbox[3]
    IN IF 50 * cx2 < 33 * frame_width THEN "left"
       ELSE IF 50 * cx2 >= 66 * frame_width THEN "right"
       ELSE "none"

\* cx = (x1 + x2) / 2 against frame_width * 0.33 and * 0.66
ZoneOf(bbox, frame_width) ==
    LET cx2 == bbox[1] + bbox[3]
    IN IF 50 * cx2 < 33 * frame_width THEN "left"
       ELSE IF 50 * cx2 < 66 * frame_width THEN "center"
       ELSE "right"

ZoneCount(persons, frame_width, zone) ==
    Cardinality({i \in 1..Len(persons) : ZoneOf(persons[i].bbox, frame_width) = zone})

\* density_score = count / (frame_width / 1000) against 8 and 16
CrowdDensity(count, frame_width) ==
    IF 1000 * count < 8 * frame_width THEN "low"
    ELSE IF 1000 * count < 16 * frame_width THEN "medium"
    ELSE "high"

\* if count >= 3
CrowdRecords(count) == count >= 3

\* CrowdAnalyzer.analyze when no KeyError is raised
CrowdAnalyzeReturns(history, maxlen, detections, frame_width) ==
    LET persons == CrowdPersons(detections)
        count == Len(persons)
        zones == [left |-> ZoneCount(persons, frame_width, "left"),
                  center |-> ZoneCount(persons, frame_width, "center"),
                  right |-> ZoneCount(persons, frame_width, "right")]
        recorded == IF CrowdRecords(count) THEN DequeAppend(history, count, maxlen) ELSE history
        trend == IF CrowdRecords(count) THEN CrowdTrend(recorded) ELSE "stable"
    IN [history |-> recorded,
        out |-> [count |-> count, density |-> CrowdDensity(count, frame_width),
                 trend |-> trend, zones |-> zones]]

\* CrowdAnalyzer.analyze: the history after the call and the result; the KeyError
\* is raised before the history is touched
CrowdAnalyze(history, maxlen, detections, frame_width) ==
    IF CrowdRaises(detections) THEN [history |-> history, out |-> KeyError]
    ELSE CrowdAnalyzeReturns(history, maxlen, detections, frame_width)

(***************************************************************************)
(* HighwayAnalyzer                                                         *)
(***************************************************************************)
HIGHWAY_VEHICLE_CLASSES == {"car", "truck", "bus", "motorbike"}

\* d.get("class_name") in classes
GetIn(d, key, values) == key \in DOMAIN d /\ d[key] \in values

\* p.get("bbox", [0,0,0,0])
BBoxOrZero(d) == IF "bbox" \in DOMAIN d THEN d.bbox ELSE <<0, 0, 0, 0>>

HighwayDensity(vehicle_count) ==
    IF vehicle_count < 6 THEN "low"
    ELSE IF vehicle_count < 15 THEN "medium"
    ELSE "high"

\* cy = (y1 + y2) / 2 > frame_height * fraction, the fraction in hundredths
BelowLine(d, frame_height, hundredths) ==
    LET bbox == BBoxOrZero(d)
    IN 50 * (bbox[2] + bbox[4]) > hundredths * frame_height

\* Mutant of HighwayRisk: a pedestrian in the roadway is enough
HighwayRiskAnyPedestrian(pedestrian_in_roadway, vehicle_count) ==
    IF pedestrian_in_roadway THEN "elevated" ELSE "normal"

\* risk = "elevated" if pedestrian_in_roadway and vehicle_count > 0 else "normal"
HighwayRisk(pedestrian_in_roadway, vehicle_count) ==
    IF pedestrian_in_roadway /\ vehicle_count > 0 THEN "elevated" ELSE "normal"

\* HighwayAnalyzer.analyze: the history after the call and the result
HighwayAnalyze(history, maxlen, detections, frame_height) ==
    LET vehicles == SelectSeq(detections, LAMBDA d : GetIn(d, "class_name", HIGHWAY_VEHICLE_CLASSES))
        persons == SelectSeq(detections, LAMBDA d : GetIs(d, "class_name", "person"))
        vehicle_count == Len(vehicles)
        recorded == DequeAppend(history, vehicle_count, maxlen)
        pedestrian_in_roadway ==
            \E i \in 1..Len(persons) : BelowLine(persons[i], frame_height, 60)
    IN [history |-> recorded,
        out |-> [vehicle_count |-> vehicle_count,
                 density |-> HighwayDensity(vehicle_count),
                 trend |-> GatedTrend(recorded),
                 pedestrian_in_roadway |-> pedestrian_in_roadway,
                 risk |-> HighwayRisk(pedestrian_in_roadway, vehicle_count)]]

(***************************************************************************)
(* IndustrialAnalyzer                                                      *)
(***************************************************************************)
INDUSTRIAL_VEHICLE_CLASSES == {"car", "truck", "bus", "motorbike", "motorcycle"}

MACHINE_CLASSES == {"forklift"}

op_zone_start_hundredths == 60

\* Mutant of PpeRequired: a worker in the operational zone is enough
PpeRequiredAnyWorker(workers_in_op_zone, high_risk_context) == workers_in_op_zone > 0

\* ppe_verification_required = workers_in_op_zone > 0 and high_risk_context
PpeRequired(workers_in_op_zone, high_risk_context) ==
    workers_in_op_zone > 0 /\ high_risk_context

\* IndustrialAnalyzer.analyze: the history after the call and the result
IndustrialAnalyze(history, maxlen, detections, frame_height) ==
    LET persons == SelectSeq(detections, LAMBDA d : GetIs(d, "class_name", "person"))
        vehicles == SelectSeq(detections,
                        LAMBDA d : GetIn(d, "class_name", INDUSTRIAL_VEHICLE_CLASSES))
        machines == SelectSeq(detections, LAMBDA d : GetIn(d, "class_name", MACHINE_CLASSES))
        worker_count == Len(persons)
        vehicle_count == Len(vehicles)
        machine_count == Len(machines)
        recorded == DequeAppend(history, worker_count, maxlen)
        workers_in_op_zone ==
            Cardinality({i \in 1..Len(persons) :
                            BelowLine(persons[i], frame_height, op_zone_start_hundredths)})
        high_risk_context == (vehicle_count + machine_count) > 0
        ppe_verification_required == PpeRequired(workers_in_op_zone, high_risk_context)
        alerts == IF ppe_verification_required
                  THEN <<[type |-> "ppe_verification_required",
                          workers_in_zone |-> workers_in_op_zone,
                          vehicles |-> vehicle_count,
                          machines |-> machine_count]>>
                  ELSE <<>>
    IN [history |-> recorded,
        out |-> [worker_count |-> worker_count,
                 worker_trend |-> GatedTrend(recorded),
                 workers_in_op_zone |-> workers_in_op_zone,
                 vehicle_count |-> vehicle_count,
                 machine_count |-> machine_count,
                 ppe_verification_required |-> ppe_verification_required,
                 risk |-> IF ppe_verification_required THEN "elevated" ELSE "normal",
                 alerts |-> alerts,
                 alert_count |-> Len(alerts)]]

(***************************************************************************)
(* The counting analyzers as objects                                       *)
(***************************************************************************)
NoResult == [trend |-> "none"]

\* CrowdAnalyzer(history_size), HighwayAnalyzer(history_size), IndustrialAnalyzer(history_size)
NewAnalyzer(history_size) ==
    [history |-> <<>>, maxlen |-> history_size, calls |-> 0, detections |-> <<>>,
     out |-> NoResult]

TrendInit ==
    \E n \in HistorySizes :
        /\ crowd = NewAnalyzer(n)
        /\ highway = NewAnalyzer(n)
        /\ industrial = NewAnalyzer(n)

TrendInitDefault ==
    /\ crowd = NewAnalyzer(history_size_default)
    /\ highway = NewAnalyzer(history_size_default)
    /\ industrial = NewAnalyzer(history_size_default)

\* the analyzer after a call: its history, and the call's argument and result
Called(analyzer, detections, r) ==
    [analyzer EXCEPT !.history = r.history, !.out = r.out, !.detections = detections,
                     !.calls = analyzer.calls + 1]

\* one call crowd_analyzer.analyze(detections, frame_width)
CrowdCall ==
    /\ crowd.calls < MaxTrendCalls
    /\ highway.calls = 0 /\ industrial.calls = 0
    /\ \E detections \in CrowdFrames :
          crowd' = Called(crowd, detections, CrowdAnalyze(crowd.history, crowd.maxlen, detections, FrameWidth))
    /\ UNCHANGED <<highway, industrial, loiter_vars, system_vars>>

\* one call highway_analyzer.analyze(detections, frame_height)
HighwayCall ==
    /\ highway.calls < MaxTrendCalls
    /\ crowd.calls = 0 /\ industrial.calls = 0
    /\ \E detections \in HighwayFrames :
          highway' = Called(highway, detections,
                            HighwayAnalyze(highway.history, highway.maxlen, detections, FrameHeight))
    /\ UNCHANGED <<crowd, industrial, loiter_vars, system_vars>>

\* one call industrial_analyzer.analyze(detections, frame_height)
IndustrialCall ==
    /\ industrial.calls < MaxTrendCalls
    /\ crowd.calls = 0 /\ highway.calls = 0
    /\ \E detections \in IndustrialFrames :
          industrial' = Called(industrial, detections,
                               IndustrialAnalyze(industrial.history, industrial.maxlen,
                                                 detections, FrameHeight))
    /\ UNCHANGED <<crowd, highway, loiter_vars, system_vars>>

(***************************************************************************)
(* Backend: scene state, event log, video frame                            *)
(***************************************************************************)
SCENES == {"shibuya", "industrial", "highway"}

INITIAL_ACTIVE_SCENE == "shibuya"

MAX_EVENTS == 500

None == "None"

\* switch_scene is a plain def: it runs in a worker thread, and the event loop
\* thread may handle receive_frame and upload_video_frame between its statements.
\* clearing: calls that have written ACTIVE_SCENE and are yet to clear the log;
\* resetting: calls that have cleared the log and are yet to reset the frame.
BackendInit ==
    backend = [ACTIVE_SCENE |-> INITIAL_ACTIVE_SCENE, events |-> <<>>, last_video_frame |-> None,
               clearing |-> 0, resetting |-> 0]

\* switch_scene(payload), up to ACTIVE_SCENE = payload.scene: an unknown scene is
\* refused, the active scene is a noop
SwitchSceneTo(b, scene) ==
    IF scene \notin SCENES THEN b
    ELSE IF scene = b.ACTIVE_SCENE THEN b
    ELSE [b EXCEPT !.ACTIVE_SCENE = scene, !.clearing = @ + 1]

\* switch_scene: events.clear()
SwitchSceneClear(b) ==
    [b EXCEPT !.events = <<>>, !.clearing = @ - 1, !.resetting = @ + 1]

\* switch_scene: last_video_frame = None, and the call returns
SwitchSceneReset(b) == [b EXCEPT !.last_video_frame = None, !.resetting = @ - 1]

\* Mutant of Stamped: the scene the payload carried is kept
StampedAsSent(payload, active_scene, now) ==
    [key \in DOMAIN payload \cup {"received_at", "scene"} |->
        IF key = "received_at" THEN now
        ELSE IF key = "scene" /\ "scene" \notin DOMAIN payload THEN active_scene
        ELSE payload[key]]

\* payload["received_at"] = time.time(); payload["scene"] = ACTIVE_SCENE
Stamped(payload, active_scene, now) ==
    [key \in DOMAIN payload \cup {"received_at", "scene"} |->
        IF key = "received_at" THEN now
        ELSE IF key = "scene" THEN active_scene
        ELSE payload[key]]

\* Mutant of Trimmed: a full log drops the event that has just arrived
TrimmedNewest(appended) ==
    IF Len(appended) > MAX_EVENTS THEN SubSeq(appended, 1, MAX_EVENTS) ELSE appended

\* if len(events) > MAX_EVENTS: events.pop(0)
Trimmed(appended) == IF Len(appended) > MAX_EVENTS THEN Tail(appended) ELSE appended

\* receive_frame(payload), time.time() reading `now`
ReceiveFrame(b, payload, now) ==
    [b EXCEPT !.events = Trimmed(Append(b.events, Stamped(payload, b.ACTIVE_SCENE, now)))]

\* upload_video_frame(request)
UploadVideoFrame(b, body) == [b EXCEPT !.last_video_frame = body]

(***************************************************************************)
(* Ingestion loop: rtsp_inference.main                                     *)
(***************************************************************************)
SCENE_SOURCES ==
    [shibuya |-> [type |-> "youtube"], industrial |-> [type |-> "file"],
     highway |-> [type |-> "file"]]

\* resolve_stream(scene_key): the outcomes; a stream url is named by its scene
ResolveStream(scene_key) ==
    IF scene_key \notin DOMAIN SCENE_SOURCES THEN {None}
    ELSE IF SCENE_SOURCES[scene_key].type = "youtube" THEN {scene_key, None}
    ELSE {scene_key}

\* seconds that pass between two readings of the clock at the top of the loop
Ticks == {1, POLL_INTERVAL + 1}

\* frames the detector reports
LoopFrames == {Frame(0, 0, 0, FALSE), Frame(3, 1, 0, FALSE), Frame(1, 2, 0, TRUE)}

\* round(dist, 1) in tenths of a pixel, from the squared distance
RoundedTenths(d2) ==
    CHOOSE t \in 0..(10 * near_miss_px_threshold) :
        /\ t = 0 \/ (2 * t - 1) * (2 * t - 1) <= 400 * d2
        /\ 400 * d2 < (2 * t + 1) * (2 * t + 1)

\* _near_miss(person_dets, car_dets, px_threshold)
RECURSIVE NearMissPairs(_, _, _, _)
NearMissPairs(person_dets, car_dets, i, j) ==
    IF i > Len(person_dets) THEN <<>>
    ELSE IF j > Len(car_dets) THEN NearMissPairs(person_dets, car_dets, i + 1, 1)
    ELSE LET d2 == _dist2(_centroid(person_dets[i].bbox), _centroid(car_dets[j].bbox))
             rest == NearMissPairs(person_dets, car_dets, i, j + 1)
         IN IF d2 < near_miss_px_threshold * near_miss_px_threshold
            THEN <<[type |-> "pedestrian_vehicle_conflict",
                    distance_px_tenths |-> RoundedTenths(d2),
                    person_conf |-> person_dets[i].confidence,
                    vehicle_conf |-> car_dets[j].confidence]>> \o rest
            ELSE rest

_near_miss(person_dets, car_dets) == NearMissPairs(person_dets, car_dets, 1, 1)

\* the state of the three module-level analyzers
Analyzers ==
    [crowd |-> crowd, highway |-> highway,
     loiter |-> [tracks |-> _tracks, next_id |-> _next_id, call |-> loiter_call,
                 out |-> loiter_out, calls |-> loiter_calls, hist |-> loiter_hist]]

\* the ids a call created and the ids it listed, added to the history
Recorded(hist, r, before) ==
    [issued |-> hist.issued \cup {r.call.assignments[i].tid : i \in NewAssignments(r.call, before)},
     listed |-> hist.listed \cup {r.out.loiterers[i].track_id : i \in 1..Len(r.out.loiterers)}]

\* Mutant of ShibuyaBranch: the crowd and loiter analyzers run whatever the scene
ShibuyaBranchAnyScene(active_scene) == TRUE

\* if active_scene == "shibuya"
ShibuyaBranch(active_scene) == active_scene = "shibuya"

\* Mutant of NoneIfEmpty: an empty dict is published as it is
NoneIfEmptyKept(intelligence) == {intelligence}

\* if not intelligence: intelligence = None
NoneIfEmpty(intelligence) == IF DOMAIN intelligence = {} THEN {} ELSE {intelligence}

\* Scene-specific intelligence: the analyzers after the frame and the dict built
Intelligence(an, active_scene, detections, now) ==
    IF ShibuyaBranch(active_scene)
    THEN LET c == CrowdAnalyze(an.crowd.history, an.crowd.maxlen, detections, FrameWidth)
             l == LoiterAnalyze(an.loiter.tracks, an.loiter.next_id, loiter_seconds,
                                detections, {now}, now)
             persons == SelectSeq(detections,
                            LAMBDA d : d.class_name = "person" /\ d.confidence > 15)
             vehicles == SelectSeq(detections,
                            LAMBDA d : d.class_name \in {"car", "truck", "bus", "motorcycle"})
             conflict_alerts == _near_miss(persons, vehicles)
         IN [analyzers |->
                [an EXCEPT !.crowd = Called(an.crowd, detections, c),
                           !.loiter = [tracks |-> l.tracks, next_id |-> l.next_id,
                                       call |-> l.call, out |-> l.out,
                                       calls |-> an.loiter.calls + 1,
                                       hist |-> Recorded(an.loiter.hist, l, an.loiter.tracks)]],
             intelligence |->
                NoneIfEmpty([crowd |-> c.out, loitering |-> l.out,
                             safety |-> [alerts |-> conflict_alerts,
                                         alert_count |-> Len(conflict_alerts)]])]
    ELSE IF active_scene = "highway"
    THEN LET t == HighwayAnalyze(an.highway.history, an.highway.maxlen, detections, FrameHeight)
         IN [analyzers |-> [an EXCEPT !.highway = Called(an.highway, detections, t)],
             intelligence |-> NoneIfEmpty([traffic |-> t.out])]
    ELSE [analyzers |-> an, intelligence |-> NoneIfEmpty(<< >>)]

LoopInit ==
    /\ clock = WallEpoch
    /\ loop = [pc |-> "top", active_scene |-> None, cap |-> None,
               current_stream_url |-> None, stream_resolved_at |-> 0,
               last_scene_poll |-> 0, just_switched |-> FALSE,
               payload |-> {}, frame |-> None, iters |-> 0]

\* the poll branch of one iteration, `scene` being what get_active_scene returned
\* Mutant of PollFailed: active_scene is set before the stream is opened and the
\* old capture is kept
PollFailedSceneFirst(polled, scene) ==
    [polled EXCEPT !.active_scene = IF scene = None THEN @ ELSE scene]

\* the old capture is released (if cap: cap.release(); cap = None), then
\* resolve_stream or cv2.VideoCapture fails: cap stays None, `continue`
PollFailed(polled, scene) == [polled EXCEPT !.cap = None]

Poll(l, now, scene, stream_url, opened) ==
    LET scene_changed == scene # None /\ scene # l.active_scene
        hls_expired == l.current_stream_url # None /\ now - l.stream_resolved_at > HLS_MAX_AGE
        polled == [l EXCEPT !.last_scene_poll = now, !.just_switched = FALSE]
    IN IF scene_changed \/ hls_expired
       THEN IF stream_url = None \/ ~opened
            THEN PollFailed(polled, scene)
            ELSE [polled EXCEPT !.cap = stream_url, !.active_scene = scene,
                                !.current_stream_url = stream_url,
                                !.stream_resolved_at = now,
                                !.just_switched = scene_changed]
       ELSE polled

\* one pass through the top of the loop at time `now`: poll the backend when due,
\* go on to read a frame when a capture is open
TopOfLoop(l, now, scene, stream_url, opened) ==
    LET after == IF now - l.last_scene_poll > POLL_INTERVAL
                 THEN Poll(l, now, scene, stream_url, opened)
                 ELSE [l EXCEPT !.just_switched = FALSE]
    IN [after EXCEPT !.pc = IF after.cap = None THEN "top" ELSE "read"]

\* top of the loop: read the clock, poll the backend when due, go on to read a frame
\* when a capture is open
LoopTop ==
    /\ loop.pc = "top"
    /\ loop.iters < MaxLoopIters
    /\ \E dt \in Ticks, scene \in {backend.ACTIVE_SCENE, None}, opened \in BOOLEAN :
         \E stream_url \in ResolveStream(scene) :
            LET now == clock + dt
            IN /\ now <= WallEpoch + MaxElapsed
               /\ clock' = now
               /\ loop' = TopOfLoop(loop, now, scene, stream_url, opened)
    /\ UNCHANGED <<backend, loiter_vars, trend_vars>>

\* cap.read() fails: forcing reconnect
LoopReadFails ==
    /\ loop.pc = "read"
    /\ loop' = [loop EXCEPT !.cap = None, !.current_stream_url = None, !.pc = "top",
                            !.iters = loop.iters + 1]
    /\ UNCHANGED <<clock, backend, loiter_vars, trend_vars>>

\* cap.read() succeeds: inference, scene-specific intelligence, payload; `frames`
\* are the detection lists the detector may report.  The payload's "classes" and
\* "detections" are kept as `source`, the stream they were detected in.
LoopFrameOn(frames) ==
    /\ loop.pc = "read"
    /\ \E detections \in frames :
         \E r \in {Intelligence(Analyzers, loop.active_scene, detections, clock)} :
            /\ crowd' = r.analyzers.crowd
            /\ highway' = r.analyzers.highway
            /\ _tracks' = r.analyzers.loiter.tracks
            /\ _next_id' = r.analyzers.loiter.next_id
            /\ loiter_call' = r.analyzers.loiter.call
            /\ loiter_out' = r.analyzers.loiter.out
            /\ loiter_calls' = r.analyzers.loiter.calls
            /\ loiter_hist' = r.analyzers.loiter.hist
            /\ loop' = [loop EXCEPT !.pc = "post_frame",
                                    !.frame = loop.cap,
                                    !.payload = {[scene |-> loop.active_scene,
                                                  source |-> loop.cap,
                                                  num_detections |-> Len(detections),
                                                  intelligence |-> r.intelligence]}]
    /\ UNCHANGED <<clock, backend, industrial, loiter_seconds>>

LoopFrame == LoopFrameOn(LoopFrames)

\* requests.post(FRAME_ENDPOINT, json=payload): delivered, or an exception passed over
LoopPostFrame ==
    /\ loop.pc = "post_frame"
    /\ \E delivered \in BOOLEAN :
         backend' = IF delivered
                    THEN ReceiveFrame(backend, CHOOSE payload \in loop.payload : TRUE, clock)
                    ELSE backend
    /\ loop' = [loop EXCEPT !.pc = "post_video", !.payload = {}]
    /\ UNCHANGED <<clock, loiter_vars, trend_vars>>

\* requests.post(VIDEO_ENDPOINT, data=jpeg): delivered, or an exception passed over
LoopPostVideo ==
    /\ loop.pc = "post_video"
    /\ \E delivered \in BOOLEAN :
         backend' = IF delivered THEN UploadVideoFrame(backend, loop.frame) ELSE backend
    /\ loop' = [loop EXCEPT !.pc = "top", !.frame = None, !.iters = loop.iters + 1]
    /\ UNCHANGED <<clock, loiter_vars, trend_vars>>

\* POST /scenes/switch from the dashboard
SwitchScene ==
    /\ backend.clearing + backend.resetting < MaxSwitching
    /\ \E scene \in SCENES \cup {"unknown"} : backend' = SwitchSceneTo(backend, scene)
    /\ UNCHANGED <<clock, loop, loiter_vars, trend_vars>>

\* a switch_scene call under way goes on to clear the log
SwitchSceneClears ==
    /\ backend.clearing > 0
    /\ backend' = SwitchSceneClear(backend)
    /\ UNCHANGED <<clock, loop, loiter_vars, trend_vars>>

\* a switch_scene call under way goes on to reset the stored frame
SwitchSceneResets ==
    /\ backend.resetting > 0
    /\ backend' = SwitchSceneReset(backend)
    /\ UNCHANGED <<clock, loop, loiter_vars, trend_vars>>

SystemIdle ==
    /\ clock = WallEpoch
    /\ loop = [pc |-> "off"]
    /\ BackendInit

(***************************************************************************)
(* LoiterAnalyzer on its own: any sequence of analyze calls                *)
(***************************************************************************)
InitLoiter == LoiterInit /\ TrendInitDefault /\ SystemIdle

SpecLoiter == InitLoiter /\ [][Analyze]_vars

(***************************************************************************)
(* Any of the four analyzers fed arbitrary detection records, among them   *)
(* records that lack class_name or bbox                                    *)
(***************************************************************************)
\* a person high in the frame, a person low in the frame, a car, a forklift, and
\* records that lack a key
CallDets ==
    {Det("person", 100, 100), Det("person", 100, 200), Det("car", 100, 100),
     Det("forklift", 150, 150),
     [class_name |-> "person", confidence |-> 50],
     [class_name |-> "car", confidence |-> 50],
     [confidence |-> 50, bbox |-> Box(100, 100)]}

CallLists == SeqsUpTo(CallDets, MaxDets)

\* `now` arguments of these calls: None, 0.0 and 1.0
CallNows == {{}, {0}, {1}}

\* a behaviour exercises one analyzer
NoTrendCalls == crowd.calls = 0 /\ highway.calls = 0 /\ industrial.calls = 0

AnyCrowdCall ==
    /\ crowd.calls < MaxRepeat
    /\ highway.calls = 0 /\ industrial.calls = 0 /\ loiter_calls = 0
    /\ \E detections \in CallLists :
          crowd' = Called(crowd, detections,
                          CrowdAnalyze(crowd.history, crowd.maxlen, detections, FrameWidth))
    /\ UNCHANGED <<highway, industrial, loiter_vars, system_vars>>

AnyHighwayCall ==
    /\ highway.calls < MaxRepeat
    /\ crowd.calls = 0 /\ industrial.calls = 0 /\ loiter_calls = 0
    /\ \E detections \in CallLists :
          highway' = Called(highway, detections,
                            HighwayAnalyze(highway.history, highway.maxlen, detections, FrameHeight))
    /\ UNCHANGED <<crowd, industrial, loiter_vars, system_vars>>

AnyIndustrialCall ==
    /\ industrial.calls < MaxRepeat
    /\ crowd.calls = 0 /\ highway.calls = 0 /\ loiter_calls = 0
    /\ \E detections \in CallLists :
          industrial' = Called(industrial, detections,
                               IndustrialAnalyze(industrial.history, industrial.maxlen,
                                                 detections, FrameHeight))
    /\ UNCHANGED <<crowd, highway, loiter_vars, system_vars>>

AnyLoiterCall ==
    /\ loiter_calls < MaxRepeat
    /\ NoTrendCalls
    /\ \E detections \in CallLists, now_arg \in CallNows :
          \E wall \in WallReads(now_arg) :
             LoiterCall(detections, now_arg, wall)

CallsNext == AnyCrowdCall \/ AnyHighwayCall \/ AnyIndustrialCall \/ AnyLoiterCall

SpecCalls == InitLoiter /\ [][CallsNext]_vars

(***************************************************************************)
(* A counting analyzer on its own: any sequence of analyze calls on one of *)
(* the three (they share no state, so a behaviour exercises one of them)   *)
(***************************************************************************)
LoiterIdle ==
    /\ loiter_seconds = loiter_seconds_default
    /\ _tracks = << >>
    /\ _next_id = 1
    /\ loiter_call = NoCall
    /\ loiter_out = NoOut
    /\ loiter_calls = 0
    /\ loiter_hist = [issued |-> {}, listed |-> {}]

TrendNext == CrowdCall \/ HighwayCall \/ IndustrialCall

InitTrend == LoiterIdle /\ TrendInit /\ SystemIdle

SpecTrend == InitTrend /\ [][TrendNext]_vars

(***************************************************************************)
(* The system: the ingestion loop with its module-level analyzers, the     *)
(* backend, and the dashboard switching scenes                             *)
(***************************************************************************)
Init == LoiterIdle /\ TrendInitDefault /\ LoopInit /\ BackendInit

Next ==
    \/ LoopTop
    \/ LoopReadFails
    \/ LoopFrame
    \/ LoopPostFrame
    \/ LoopPostVideo
    \/ SwitchScene
    \/ SwitchSceneClears
    \/ SwitchSceneResets

Spec == Init /\ [][Next]_vars

(***************************************************************************)
(* The ingestion loop running without end, the backend reporting the same  *)
(* scene throughout and stream resolution and opening succeeding.          *)
(*                                                                         *)
(* Time is kept relative to the present: where the loop would read a clock *)
(* that has advanced by dt, the two stamps it keeps are moved back by dt   *)
(* instead, and a stamp older than the threshold it is compared with stays *)
(* one second older than that threshold. The loop reads its stamps only in *)
(* `now - stamp > threshold`, so it decides as it does with the absolute   *)
(* clock, and a run without end has finitely many states. The number of    *)
(* frame reads is bounded by MaxLoopIters; the passes through the top of   *)
(* the loop are not bounded.                                               *)
(***************************************************************************)
\* seconds between two passes: below and above POLL_INTERVAL, and above HLS_MAX_AGE
LiveTicks == Ticks \cup {HLS_MAX_AGE + 1}

\* frames without persons: LoiterAnalyzer keeps no time stamp for them
LiveFrames == {Frame(0, 0, 0, FALSE), Frame(0, 2, 0, FALSE)}

\* a stamp moved back by dt, kept at most threshold + 1 before `now`
MovedBack(stamp, dt, now, threshold) == Max(stamp - dt, now - threshold - 1)

Rebased(l, dt, now) ==
    [l EXCEPT !.last_scene_poll = MovedBack(l.last_scene_poll, dt, now, POLL_INTERVAL),
              !.stream_resolved_at = MovedBack(l.stream_resolved_at, dt, now, HLS_MAX_AGE)]

\* top of the loop, dt after the pass before; get_active_scene, resolve_stream and
\* cv2.VideoCapture succeed
LiveTop ==
    /\ loop.pc = "top"
    /\ loop.iters < MaxLoopIters
    /\ \E dt \in LiveTicks :
         LET scene == backend.ACTIVE_SCENE
             stream_url == CHOOSE u \in ResolveStream(scene) : u # None
         IN loop' = TopOfLoop(Rebased(loop, dt, clock), clock, scene, stream_url, TRUE)
    /\ UNCHANGED <<clock, backend, loiter_vars, trend_vars>>

LiveFrame == LoopFrameOn(LiveFrames)

LiveNext ==
    \/ LiveTop
    \/ LoopReadFails
    \/ LiveFrame
    \/ LoopPostFrame
    \/ LoopPostVideo

\* the loop never sleeps for good: some step of it is always taken
SpecReconnect == Init /\ [][LiveNext]_vars /\ WF_vars(LiveNext)

(***************************************************************************)
(* The capture over a long run: scene switches, an unreachable backend,    *)
(* streams that fail to resolve or open, failed reads and the expiry of    *)
(* the HLS url.  Time is kept relative to the present, as in SpecReconnect.*)
(***************************************************************************)
CaptureTicks == {POLL_INTERVAL + 1, HLS_MAX_AGE + 1}

\* top of the loop, dt after the pass before
CaptureTop ==
    /\ loop.pc = "top"
    /\ loop.iters < MaxLoopIters
    /\ \E dt \in CaptureTicks, scene \in {backend.ACTIVE_SCENE, None}, opened \in BOOLEAN :
         \E stream_url \in ResolveStream(scene) :
            loop' = TopOfLoop(Rebased(loop, dt, clock), clock, scene, stream_url, opened)
    /\ UNCHANGED <<clock, backend, loiter_vars, trend_vars>>

CaptureNext ==
    \/ CaptureTop
    \/ LoopReadFails
    \/ LiveFrame
    \/ LoopPostFrame
    \/ LoopPostVideo
    \/ SwitchScene
    \/ SwitchSceneClears
    \/ SwitchSceneResets

SpecCapture == Init /\ [][CaptureNext]_vars

(***************************************************************************)
(* The backend on its own: requests handled one at a time                  *)
(***************************************************************************)
\* bodies of POST /frame: any JSON object, with or without a "scene" key; `source`
\* is the stream its content was detected in
RequestPayloads ==
    {[source |-> scene] : scene \in {"shibuya", "highway"}}
        \cup {[scene |-> scene, source |-> scene] : scene \in {"shibuya", "highway"}}
        \cup {[scene |-> "unknown", source |-> "shibuya"]}

\* POST /frame, one second after the request before; at most `requests` of them
ReceiveFrom(payloads, requests) ==
    /\ clock < WallEpoch + requests
    /\ clock' = clock + 1
    /\ \E payload \in payloads : backend' = ReceiveFrame(backend, payload, clock')
    /\ UNCHANGED <<loop, loiter_vars, trend_vars>>

BackendReceive == ReceiveFrom(RequestPayloads, MaxRequests)

InitBackend == LoiterIdle /\ TrendInitDefault /\ SystemIdle

BackendNext ==
    \/ BackendReceive
    \/ SwitchScene
    \/ SwitchSceneClears
    \/ SwitchSceneResets

SpecBackend == InitBackend /\ [][BackendNext]_vars

(***************************************************************************)
(* The event log filled past MAX_EVENTS: POST /frame requests only         *)
(***************************************************************************)
LogPayloads == {[scene |-> "shibuya", source |-> "shibuya"]}

LogReceive == ReceiveFrom(LogPayloads, MAX_EVENTS + MaxOverflow)

SpecEventLog == InitBackend /\ [][LogReceive]_vars

(***************************************************************************)
(* Properties of LoiterAnalyzer (checked under SpecLoiter)                 *)
(***************************************************************************)
\* ids of the tracks the last call returned as loiterers
ListedIds == {loiter_out.loiterers[i].track_id : i \in 1..Len(loiter_out.loiterers)}

\* ids the last call assigned
AssignedIds == {loiter_call.assignments[i].tid : i \in 1..Len(loiter_call.assignments)}

\* the `now` the caller of a call meant: the argument when one was given
CallerNow(call) == IF call.now_arg = {} THEN call.now ELSE CHOOSE t \in call.now_arg : TRUE

\* C1: after any sequence of analyze calls, with any detections and any `now`
\* values, every live track has dwell_seconds >= 0.
C1_DwellNonNegative == \A tid \in DOMAIN _tracks : _tracks[tid].dwell_seconds >= 0

\* C1 witness: a track first seen before LateNow and matched at LateNow has dwell 0:
\* it was last seen max_track_age_seconds earlier with a smaller dwell and moved,
\* so the decay went below zero and was floored.
C1_Witness ==
    \E tid \in AssignedIds :
        /\ loiter_call.now = LateNow
        /\ _tracks[tid].first_seen < LateNow
        /\ _tracks[tid].dwell_seconds = 0

\* C2: ids are unique for the analyzer's lifetime: a new track's id is greater
\* than every id issued before (in earlier calls and earlier in this call), so an
\* evicted track's id is never given again, and a matched track stays under its id.
C2_IdsNeverReused ==
    [][loiter_calls' # loiter_calls =>
        LET a == loiter_call'.assignments
            new == NewAssignments(loiter_call', _tracks)
        IN /\ \A i \in new :
                /\ \A old \in loiter_hist.issued : a[i].tid > old
                /\ \A j \in new : j < i => a[j].tid < a[i].tid
           /\ \A i \in (1..Len(a)) \ new :
                /\ a[i].tid \in DOMAIN _tracks
                /\ a[i].tid \in DOMAIN _tracks'
                /\ _tracks'[a[i].tid].first_seen = _tracks[a[i].tid].first_seen
           /\ _next_id' >= _next_id]_vars

\* C2 witness: a track was evicted and the last call created a track, whose id is
\* the newest one.
C2_Witness ==
    \E old \in loiter_hist.issued \ DOMAIN _tracks :
        \E tid \in AssignedIds :
            /\ tid = _next_id - 1
            /\ tid > old
            /\ _tracks[tid].first_seen = loiter_call.now
            /\ _tracks[tid].x = 100

\* C3: within one call every person detection is assigned exactly one track, in
\* input order, and no track is assigned to two detections.
C3_OneToOne ==
    LET a == loiter_call.assignments
        persons == LoiterPersons(loiter_call.detections)
    IN /\ Len(a) = Len(persons)
       /\ \A i \in 1..Len(a) :
            /\ a[i].c = _centroid(persons[i].bbox)
            /\ a[i].tid \in DOMAIN _tracks
       /\ \A i, j \in 1..Len(a) : i # j => a[i].tid # a[j].tid

\* C3 witness: a frame with two persons within match_radius_px of each other, the
\* first assigned a track of an earlier call and the second a track of this call.
C3_Witness ==
    LET a == loiter_call.assignments
    IN /\ Len(a) = 2
       /\ _dist2(a[1].c, a[2].c) <= match_radius_px * match_radius_px
       /\ _tracks[a[1].tid].first_seen # loiter_call.now
       /\ _tracks[a[2].tid].first_seen = loiter_call.now

\* C4 as claimed: at the start of a call every track with now - last_seen >
\* max_track_age_seconds is removed (not live, not assigned, not listed) and every
\* other track is kept, `now` being the time the caller passed.
C4_AgedOutByCallerNow ==
    [][loiter_calls' # loiter_calls =>
        \A tid \in DOMAIN _tracks :
            IF CallerNow(loiter_call') - _tracks[tid].last_seen > max_track_age_seconds
            THEN /\ tid \notin DOMAIN _tracks'
                 /\ \A i \in 1..Len(loiter_call'.assignments) :
                        loiter_call'.assignments[i].tid # tid
                 /\ \A i \in 1..Len(loiter_out'.loiterers) :
                        loiter_out'.loiterers[i].track_id # tid
            ELSE tid \in DOMAIN _tracks']_vars

\* C5 as claimed: a matched track's dwell becomes dwell + dt when the centroid is
\* within match_radius_px/2 of its position and max(0, dwell - dt) otherwise, with
\* dt = max(0, now - last_seen) for the `now` the caller passed; a new track has
\* dwell 0; and one person detected at one position in two calls whose `now` are 1
\* second apart has its dwell raised by 1 by the second call.
C5_DwellUpdateByCallerNow ==
    [][loiter_calls' # loiter_calls =>
        LET a == loiter_call'.assignments
            new == NewAssignments(loiter_call', _tracks)
            now == CallerNow(loiter_call')
        IN /\ \A i \in new : _tracks'[a[i].tid].dwell_seconds = 0
           /\ \A i \in (1..Len(a)) \ new :
                LET tr == _tracks[a[i].tid]
                    dt == Max(0, now - tr.last_seen)
                IN _tracks'[a[i].tid].dwell_seconds =
                      IF 4 * _dist2(<<tr.x, tr.y>>, a[i].c) <= match_radius_px * match_radius_px
                      THEN tr.dwell_seconds + dt
                      ELSE Max(0, tr.dwell_seconds - dt)
           /\ (/\ loiter_call.now_arg # {}
               /\ loiter_call'.now_arg = {CallerNow(loiter_call) + 1}
               /\ Len(loiter_call.assignments) = 1
               /\ Len(a) = 1
               /\ a[1].c = loiter_call.assignments[1].c)
              => /\ a[1].tid = loiter_call.assignments[1].tid
                 /\ _tracks'[a[1].tid].dwell_seconds = _tracks[a[1].tid].dwell_seconds + 1]_vars

\* C6: the loiterers returned are exactly the live tracks with dwell_seconds >=
\* loiter_seconds, once each, and loiter_count is their number; nothing else (such
\* as having been listed before) puts a track in the list.
C6_LoiterersExact ==
    LET qualifying == {tid \in DOMAIN _tracks : _tracks[tid].dwell_seconds >= loiter_seconds}
    IN /\ ListedIds = qualifying
       /\ Len(loiter_out.loiterers) = Cardinality(qualifying)
       /\ loiter_out.loiter_count = Cardinality(qualifying)
       /\ loiter_out.active_tracks = Cardinality(DOMAIN _tracks)

\* C6 witness: a track listed by an earlier call was matched by the last call, is
\* live, and is not listed any more.
C6_Witness ==
    \E tid \in loiter_hist.listed \cap AssignedIds :
        /\ tid \in DOMAIN _tracks
        /\ tid \notin ListedIds
        /\ _tracks[tid].dwell_seconds < loiter_seconds


(***************************************************************************)
(* Properties of the counting analyzers (checked under SpecTrend)          *)
(***************************************************************************)
\* a record that has both class_name and bbox
WellFormed(d) == "class_name" \in DOMAIN d /\ "bbox" \in DOMAIN d

\* the number of well-formed detections whose class is one of `classes`
CountOfInterest(detections, classes) ==
    Cardinality({i \in 1..Len(detections) :
                    WellFormed(detections[i]) /\ detections[i].class_name \in classes})

\* C8: for CrowdAnalyzer, HighwayAnalyzer and IndustrialAnalyzer the trend returned
\* is stable in every call made while the history holds fewer than 6 samples.
C8_StableBeforeSixSamples ==
    /\ (crowd.calls > 0 /\ Len(crowd.history) < 6) => crowd.out.trend = "stable"
    /\ (highway.calls > 0 /\ Len(highway.history) < 6) => highway.out.trend = "stable"
    /\ (industrial.calls > 0 /\ Len(industrial.history) < 6) =>
            industrial.out.worker_trend = "stable"

\* C8 witness: HighwayAnalyzer has recorded five counts that went from 2 to 8 and
\* returned a trend.
C8_Witness ==
    /\ highway.calls = 5
    /\ highway.history = <<2, 2, 8, 8, 8>>
    /\ highway.out.trend = "stable"

\* C9 as claimed: once HighwayAnalyzer has recorded 6 counts, the trend is increasing
\* whenever recent > earlier * 1.2, whatever earlier is, decreasing whenever
\* recent < earlier * 0.8 and earlier > 0, and stable otherwise (the comparisons as
\* the doubles of the code decide them).
C9_HighwayTrendUngated ==
    (highway.calls > 0 /\ Len(highway.history) >= 6) =>
        LET recent == Sum(Last3(highway.history))
            earlier == Sum(Earlier3(highway.history))
        IN highway.out.trend =
              IF FloatGt12(recent, earlier) THEN "increasing"
              ELSE IF earlier > 0 /\ FloatLt08(recent, earlier) THEN "decreasing"
              ELSE "stable"

\* C10 as claimed: a CrowdAnalyzer call with fewer than 3 persons leaves the history
\* as it was and returns the classification of that history.
C10_SparseCrowdKeepsTrend ==
    [][(crowd'.calls # crowd.calls /\ crowd'.out.count < 3) =>
          /\ crowd'.history = crowd.history
          /\ crowd'.out.trend = CrowdTrend(crowd.history)]_vars

\* C12: in every HighwayAnalyzer result, pedestrian_in_roadway is true exactly when
\* some person detection of that call has its vertical centroid below 0.60 of the
\* frame height, and risk is elevated exactly when pedestrian_in_roadway is true and
\* vehicle_count > 0 in that call, whatever the earlier calls were.
C12_RiskIffPedestrianAndVehicle ==
    highway.calls > 0 =>
        LET out == highway.out
            d == highway.detections
            some_person_low ==
                \E i \in 1..Len(d) :
                    /\ WellFormed(d[i]) /\ d[i].class_name = "person"
                    /\ 50 * (d[i].bbox[2] + d[i].bbox[4]) > 60 * FrameHeight
        IN /\ out.pedestrian_in_roadway = some_person_low
           /\ out.risk \in {"elevated", "normal"}
           /\ (out.risk = "elevated") = (out.pedestrian_in_roadway /\ out.vehicle_count > 0)

\* C12 witness: a call with a pedestrian in the roadway and vehicles returned
\* elevated, the call before it having seen no vehicle.
C12_Witness ==
    /\ highway.calls >= 2
    /\ highway.out.risk = "elevated"
    /\ highway.out.pedestrian_in_roadway
    /\ highway.history[Len(highway.history) - 1] = 0

\* C13: in every IndustrialAnalyzer result, ppe_verification_required is true exactly
\* when workers_in_op_zone > 0 and vehicle_count + machine_count > 0; there is one
\* alert, of type ppe_verification_required, and alert_count is 1 exactly when the
\* flag is true, no alert and alert_count 0 otherwise; risk is elevated exactly when
\* the flag is true.
C13_PpeFlagAlertsRisk ==
    industrial.calls > 0 =>
        LET out == industrial.out
            flag == out.workers_in_op_zone > 0 /\ out.vehicle_count + out.machine_count > 0
        IN /\ out.ppe_verification_required = flag
           /\ out.alert_count = (IF flag THEN 1 ELSE 0)
           /\ Len(out.alerts) = out.alert_count
           /\ \A i \in 1..Len(out.alerts) : out.alerts[i].type = "ppe_verification_required"
           /\ out.risk \in {"elevated", "normal"}
           /\ (out.risk = "elevated") = flag

\* C13 witness: workers in the operational zone next to a forklift and no vehicle
\* raised the one alert.
C13_Witness ==
    /\ industrial.calls > 0
    /\ industrial.out.workers_in_op_zone > 0
    /\ industrial.out.vehicle_count = 0
    /\ industrial.out.machine_count = 1
    /\ industrial.out.alert_count = 1
    /\ industrial.out.risk = "elevated"

\* C14: in every CrowdAnalyzer result the three zone counts add up to count, the
\* number of person detections of the call.
C14_ZonesSumToCount ==
    (crowd.calls > 0 /\ "raised" \notin DOMAIN crowd.out) =>
        /\ crowd.out.zones.left + crowd.out.zones.center + crowd.out.zones.right
              = crowd.out.count
        /\ crowd.out.count = CountOfInterest(crowd.detections, {"person"})

\* C14 witness: a call counted 8 persons, some in each zone.
C14_Witness ==
    /\ crowd.calls > 0
    /\ crowd.out.count = 8
    /\ crowd.out.zones.left > 0
    /\ crowd.out.zones.center > 0
    /\ crowd.out.zones.right > 0

\* the last n elements of a sequence
LastN(seq, n) == SubSeq(seq, Max(1, Len(seq) - n + 1), Len(seq))

\* what a call of the analyzer was to record: the count, or nothing
RecordedBy(before, after, count, records) ==
    after.calls # before.calls =>
        /\ Len(after.history) <= after.maxlen
        /\ after.history =
              IF records THEN LastN(Append(before.history, count), before.maxlen)
              ELSE before.history

\* C15: the rolling history of CrowdAnalyzer, HighwayAnalyzer and IndustrialAnalyzer
\* never holds more than its capacity; a recorded count is appended and, once the
\* history is full, evicts the oldest one, so that the history is the most recent
\* recorded counts in order.
C15_HistorySlidingWindow ==
    [][/\ RecordedBy(crowd, crowd', crowd'.out.count, crowd'.out.count >= 3)
       /\ RecordedBy(highway, highway', highway'.out.vehicle_count, TRUE)
       /\ RecordedBy(industrial, industrial', industrial'.out.worker_count, TRUE)]_vars

\* C15 witness: a HighwayAnalyzer of capacity 6 has been called 7 times and holds 6
\* counts, the first of which is not the first one recorded.
C15_Witness ==
    /\ highway.maxlen = SmallHistory
    /\ highway.calls > highway.maxlen
    /\ Len(highway.history) = highway.maxlen
    /\ highway.history[1] # highway.history[Len(highway.history)]

(***************************************************************************)
(* Properties of the analyzers fed arbitrary records (checked under        *)
(* SpecCalls)                                                              *)
(***************************************************************************)
\* C11 as claimed: no analyzer raises on a detection that lacks class_name or bbox;
\* each returns its normal output, in which such a record is counted neither as
\* person, worker or vehicle, and LoiterAnalyzer creates no track for it.
C11_MalformedIgnored ==
    /\ crowd.calls > 0 =>
          /\ "raised" \notin DOMAIN crowd.out
          /\ crowd.out.count = CountOfInterest(crowd.detections, {"person"})
    /\ highway.calls > 0 =>
          /\ "raised" \notin DOMAIN highway.out
          /\ highway.out.vehicle_count =
                CountOfInterest(highway.detections, HIGHWAY_VEHICLE_CLASSES)
    /\ industrial.calls > 0 =>
          /\ "raised" \notin DOMAIN industrial.out
          /\ industrial.out.worker_count = CountOfInterest(industrial.detections, {"person"})
          /\ industrial.out.vehicle_count =
                CountOfInterest(industrial.detections, INDUSTRIAL_VEHICLE_CLASSES)
    /\ loiter_calls > 0 =>
          Len(loiter_call.assignments) = CountOfInterest(loiter_call.detections, {"person"})

\* the second call on a fresh analyzer repeats the arguments of the first
Repeats(before, after) ==
    before.calls = 1 /\ after.calls = 2 /\ after.detections = before.detections

\* C18 as claimed: two calls in succession with the same detections and the same
\* `now` on a freshly constructed analyzer return equal outputs, and the second
\* call of LoiterAnalyzer creates no track.
C18_RepeatedCallSameOutput ==
    [][/\ (/\ loiter_calls = 1 /\ loiter_calls' = 2
           /\ loiter_call'.detections = loiter_call.detections
           /\ loiter_call'.now_arg = loiter_call.now_arg
           /\ loiter_call.now_arg # {}) =>
               /\ loiter_out' = loiter_out
               /\ DOMAIN _tracks' = DOMAIN _tracks
       /\ Repeats(crowd, crowd') => crowd'.out = crowd.out
       /\ Repeats(highway, highway') => highway'.out = highway.out
       /\ Repeats(industrial, industrial') => industrial'.out = industrial.out]_vars

(***************************************************************************)
(* Greedy matching of LoiterAnalyzer (checked under SpecLoiter)            *)
(***************************************************************************)
\* the person detections of the last LoiterAnalyzer call, in input order
CallPersons ==
    SelectSeq(loiter_call.detections, LAMBDA d : WellFormed(d) /\ d.class_name = "person")

\* the live tracks that were within match_radius of centroid c when the call began
WithinRadius(c) ==
    {t \in DOMAIN loiter_call.live :
        _dist2(loiter_call.live[t], c) <= match_radius_px * match_radius_px}

\* the two person detections of the last call had live track t as their only track
\* within match_radius
Compete(t) ==
    /\ loiter_calls > 0
    /\ Len(CallPersons) = 2
    /\ WithinRadius(_centroid(CallPersons[1].bbox)) = {t}
    /\ WithinRadius(_centroid(CallPersons[2].bbox)) = {t}

\* C19: when two detections of a frame both have the same live track as their only
\* track within match_radius, the one that comes first in the input list is
\* assigned that track and the later one gets a newly created track, whichever of
\* the two is closer to the track.
C19_FirstInOrderWins ==
    \A t \in DOMAIN loiter_call.live :
        Compete(t) =>
            /\ Len(loiter_call.assignments) = 2
            /\ loiter_call.assignments[1] =
                  [tid |-> t, c |-> _centroid(CallPersons[1].bbox)]
            /\ loiter_call.assignments[2].c = _centroid(CallPersons[2].bbox)
            /\ loiter_call.assignments[2].tid \notin DOMAIN loiter_call.live
            /\ loiter_call.assignments[2].tid \in loiter_hist.issued
            /\ loiter_call.assignments[2].tid \in DOMAIN _tracks

\* C19 witness: two detections competed for a track, the second of them closer to
\* it than the first, and the first was given the track.
C19_Witness ==
    \E t \in DOMAIN loiter_call.live :
        /\ Compete(t)
        /\ _dist2(loiter_call.live[t], _centroid(CallPersons[2].bbox))
              < _dist2(loiter_call.live[t], _centroid(CallPersons[1].bbox))
        /\ loiter_call.assignments[1].tid = t
        /\ loiter_call.assignments[2].tid # t

(***************************************************************************)
(* Reconnecting after a failed read (checked under SpecReconnect)          *)
(***************************************************************************)
\* a frame read has failed: the capture was released and the stream url dropped,
\* the scene is still the active one, and the loop goes on
ReadFailed ==
    /\ loop.pc = "top"
    /\ loop.cap = None
    /\ loop.current_stream_url = None
    /\ loop.active_scene = backend.ACTIVE_SCENE
    /\ loop.iters < MaxLoopIters

\* the capture is open again and the loop is about to read a frame
Reopened == loop.pc = "read" /\ loop.cap # None

\* C20 as claimed: after cap.read() fails, the backend reporting the same scene and
\* resolution and opening succeeding, the loop eventually reopens the capture.
C20_FailedReadReconnects == ReadFailed ~> Reopened

(***************************************************************************)
(* Properties of the system (checked under Spec)                           *)
(***************************************************************************)
\* the loop has just run the scene-specific intelligence on a frame
FrameProcessed == loop.pc = "read" /\ loop'.pc = "post_frame"

\* C16: processing a frame changes only the analyzer state of the active scene: a
\* highway frame leaves the crowd history, the loiter tracks and the id counter as
\* they were, a shibuya frame leaves the highway history as it was, and a frame of
\* any other scene changes no analyzer state.
C16_FrameTouchesOwnSceneOnly ==
    [][FrameProcessed =>
          /\ loop.active_scene = "highway" =>
                /\ crowd'.history = crowd.history
                /\ _tracks' = _tracks
                /\ _next_id' = _next_id
          /\ loop.active_scene = "shibuya" => highway'.history = highway.history
          /\ loop.active_scene \notin {"shibuya", "highway"} =>
                /\ crowd'.history = crowd.history
                /\ highway'.history = highway.history
                /\ industrial'.history = industrial.history
                /\ _tracks' = _tracks
                /\ _next_id' = _next_id]_vars

\* C16 witness: a highway frame has been processed while the crowd history and the
\* loiter tracks of an earlier shibuya frame were there.
C16_Witness ==
    /\ loop.pc = "post_frame"
    /\ loop.active_scene = "highway"
    /\ highway.history # <<>>
    /\ crowd.history # <<>>
    /\ DOMAIN _tracks # {}

\* C17: the payload of a processed frame has intelligence None when the active scene
\* has no analyzer (industrial, or any other than shibuya and highway), exactly the
\* keys crowd, loitering, safety for shibuya and exactly the key traffic for highway.
C17_IntelligenceKeysByScene ==
    loop.pc = "post_frame" =>
        LET payload == CHOOSE built \in loop.payload : TRUE
        IN /\ payload.scene = "shibuya" =>
                /\ payload.intelligence # {}
                /\ \A d \in payload.intelligence : DOMAIN d = {"crowd", "loitering", "safety"}
           /\ payload.scene = "highway" =>
                /\ payload.intelligence # {}
                /\ \A d \in payload.intelligence : DOMAIN d = {"traffic"}
           /\ payload.scene \notin {"shibuya", "highway"} => payload.intelligence = {}

\* C17 witness: a frame of the industrial scene has been processed and its payload
\* built.
C17_Witness ==
    /\ loop.pc = "post_frame"
    /\ \E payload \in loop.payload :
          payload.scene = "industrial" /\ payload.intelligence = {}

\* C7 as claimed: when the ingestion loop has switched its active scene, the
\* analyzers of the scene it activated hold no tracks and an empty history.
C7_SwitchResetsAnalyzers ==
    (loop.pc = "read" /\ loop.just_switched) =>
        /\ loop.active_scene = "shibuya" => (crowd.history = <<>> /\ DOMAIN _tracks = {})
        /\ loop.active_scene = "highway" => highway.history = <<>>


\* ---------------------------------------------------------------------------
\* C21  Cross-scene bleed at the backend.  Once switch_scene has moved the
\* backend to another scene and returned, neither the event log nor the stored
\* video frame holds data the inference node produced from another scene's
\* stream: every logged event was produced from the stream of ACTIVE_SCENE, and
\* the stored frame is absent or was read from the stream of ACTIVE_SCENE.
\* Streams are named by the scene they belong to (ResolveStream).
NoSwitchUnderWay == backend.clearing = 0 /\ backend.resetting = 0

LogFromActiveScene ==
    NoSwitchUnderWay =>
        \A i \in 1..Len(backend.events) : backend.events[i].source = backend.ACTIVE_SCENE

FrameFromActiveScene ==
    NoSwitchUnderWay => backend.last_video_frame \in {None, backend.ACTIVE_SCENE}

C21_NoCrossSceneBleed == LogFromActiveScene /\ FrameFromActiveScene


\* ---------------------------------------------------------------------------
\* C22  The open capture belongs to active_scene.  Whenever the loop holds an
\* open capture it is the stream resolved for active_scene; active_scene changes
\* only in a step that leaves the new scene's stream open; and a payload is
\* built and published under the scene whose stream its frame was read from.
\* Streams are named by the scene they belong to (ResolveStream).
CaptureOfActiveScene == loop.cap # None => loop.cap = loop.active_scene

PublishedUnderOwnScene ==
    \A payload \in loop.payload :
        payload.scene = payload.source /\ loop.frame = payload.source

ActiveSceneChangesOnOpen ==
    loop'.active_scene # loop.active_scene =>
        /\ loop'.cap # None
        /\ loop'.cap = loop'.active_scene
        /\ loop'.current_stream_url = loop'.cap

C22_CaptureBelongsToActiveScene ==
    /\ [](CaptureOfActiveScene /\ PublishedUnderOwnScene)
    /\ [][ActiveSceneChangesOnOpen]_vars

\* a frame of the highway stream is about to be published under highway by a loop
\* that had the shibuya stream open before and has just reopened the highway
\* stream because its url was older than HLS_MAX_AGE (no scene change in this
\* pass, stream resolved at the present time)
C22_Witness ==
    /\ loop.pc = "post_frame"
    /\ loop.active_scene = "highway"
    /\ loop.cap = "highway"
    /\ ~loop.just_switched
    /\ loop.stream_resolved_at = clock
    /\ crowd.calls > 0
    /\ highway.calls > 0


\* ---------------------------------------------------------------------------
\* C23  After any sequence of receive_frame and switch_scene requests, every
\* event of the log has a scene field and it equals ACTIVE_SCENE, whatever scene
\* the submitted payload carried.  Requests are handled one at a time: no
\* switch_scene call stands between its write of ACTIVE_SCENE and its clearing
\* of the log.
C23_EventsCarryActiveScene ==
    backend.clearing = 0 =>
        \A i \in 1..Len(backend.events) :
            /\ "scene" \in DOMAIN backend.events[i]
            /\ backend.events[i].scene = backend.ACTIVE_SCENE

\* after a switch to highway has returned the log holds two events of shibuya
\* content, both stamped highway
C23_Witness ==
    /\ NoSwitchUnderWay
    /\ backend.ACTIVE_SCENE = "highway"
    /\ Len(backend.events) >= 2
    /\ \A i \in 1..Len(backend.events) :
          backend.events[i].source = "shibuya" /\ backend.events[i].scene = "highway"


\* ---------------------------------------------------------------------------
\* C24  The event log is bounded.  The log never holds more than MAX_EVENTS
\* events; an arriving event becomes the last of the log; the events before it
\* are those of the log before, in the same order, less the oldest when the log
\* was full; so the log is the most recent events in arrival order (the k-th
\* event of the log is the one stamped by the k-th of the last Len requests).
Arrivals == clock - WallEpoch

MostRecentInOrder ==
    /\ Len(backend.events) = IF Arrivals < MAX_EVENTS THEN Arrivals ELSE MAX_EVENTS
    /\ \A k \in 1..Len(backend.events) :
          backend.events[k].received_at = clock - Len(backend.events) + k

OldestDroppedWhenFull ==
    backend'.events # backend.events =>
        /\ Len(backend'.events) >= 1
        /\ backend'.events[Len(backend'.events)].received_at = clock'
        /\ SubSeq(backend'.events, 1, Len(backend'.events) - 1)
              = IF Len(backend.events) = MAX_EVENTS
                THEN Tail(backend.events)
                ELSE backend.events

C24_LogHoldsMostRecent ==
    /\ [](Len(backend.events) <= MAX_EVENTS /\ MostRecentInOrder)
    /\ [][OldestDroppedWhenFull]_vars

\* the log is full and two events have arrived at the full log: the first two
\* are gone and the last one is the event that has just arrived
C24_Witness ==
    /\ Len(backend.events) = MAX_EVENTS
    /\ Arrivals = MAX_EVENTS + 2
    /\ backend.events[1].received_at = WallEpoch + 3
    /\ backend.events[MAX_EVENTS].received_at = clock

====
